---- MODULE Spec2Model ----
(***************************************************************************)
(* A model of three parts of kgcnn:                                        *)
(*   - kgcnn/ops/models.py  update_model_args, as used by make_megnet of   *)
(*     kgcnn/literature/Megnet.py              (specification SpecMerge)   *)
(*   - kgcnn/data/serial.py deserialize         (specification SpecSerial) *)
(*   - kgcnn/data/qm.py     QMDataset           (specification SpecQM)     *)
(* Python dictionaries are objects on a heap: a variable holds a           *)
(* reference, dict.update changes the object in place.                     *)
(***************************************************************************)
EXTENDS Integers, Sequences, FiniteSets, TLC

VARIABLES
    \* ---- update_model_args / make_megnet
    heap,       \* object id -> dictionary (key -> value)
    nalloc,     \* objects 1..nalloc are allocated
    heap0,      \* the heap as it was when the program started
    user,       \* make_megnet's arguments: section -> reference or None
    margs,      \* make_megnet's locals after line 94-101: section -> reference
    mpc,        \* make_megnet's position
    ndirect,    \* calls of update_model_args by other model builders so far
    call,       \* the last call of update_model_args: arguments and result
    \* ---- deserialize
    dataset,    \* the argument of deserialize
    importResult,   \* what kgcnn.data.datasets.<class_name> holds
    ctorResult, \* what the dataset class's constructor does
    spc,        \* deserialize's position
    inst,       \* ds_instance
    idx,        \* position in method_list (line 63)
    sub,        \* position in method_item.items() (line 64)
    log,        \* what deserialize did, in order: constructions, calls, logged messages
    exc,        \* the exception deserialize raised
    \* ---- QMDataset
    xyz,        \* the xyz file: the molecules it lists
    sdf,        \* the structure file at the path _get_mol_filename gives
    obabel,     \* whether the structure-inference tool is available
    ds,         \* the dataset's attributes
    nchanges,   \* how often the xyz file was replaced
    last        \* the last operation, what it did, and the state it started in

mergeVars == <<heap, nalloc, heap0, user, margs, mpc, ndirect, call>>
serialVars == <<dataset, importResult, ctorResult, spc, inst, idx, sub, log, exc>>

qmVars == <<xyz, sdf, obabel, ds, nchanges, last>>

\* make_megnet's input part: the three shape arguments, the Input tensors, the
\* tensors n, ed, uenv handed to the network, and the position in the function.
VARIABLES input_node_shape, input_edge_shape, input_state_shape,
          node_input, edge_input, env_input, n, ed, uenv, epc

embedVars == <<input_node_shape, input_edge_shape, input_state_shape,
               node_input, edge_input, env_input, n, ed, uenv, epc>>

vars == <<mergeVars, serialVars, qmVars, embedVars>>

OthersOfMerge == <<serialVars, qmVars, embedVars>>
OthersOfSerial == <<mergeVars, qmVars, embedVars>>
OthersOfQM == <<mergeVars, serialVars, embedVars>>
OthersOfEmbed == <<mergeVars, serialVars, qmVars>>

(***************************************************************************)
(* Values and dictionaries                                                 *)
(***************************************************************************)

\* Python's None as a reference.
None == 0

\* A dictionary value: a scalar (printed form) or a reference to a nested dict.
Scalar(s) == [ref |-> 0, val |-> s]
Ref(o) == [ref |-> o, val |-> ""]
IsRef(v) == v.ref # 0

EmptyDict == [k \in {} |-> Scalar("")]

\* dict.update(other): keys of other are set in out, other keys are kept.
DictUpdate(out, other) ==
    [k \in (DOMAIN out) \cup (DOMAIN other) |->
        IF k \in DOMAIN other THEN other[k] ELSE out[k]]

\* The dictionary a reference denotes, `{}` for None (models.py lines 113-116).
ArgOrEmpty(h, r) == IF r = None THEN EmptyDict ELSE h[r]

(***************************************************************************)
(* update_model_args (kgcnn/ops/models.py lines 102-119).                  *)
(* h: heap, d: default_args, u: user_args, o: the fresh object `out = {}`. *)
(* The result is the heap after the call and the reference returned.       *)
(***************************************************************************)

\* Mutant: the two updates in the wrong order (the default wins).
UpdateModelArgsDefaultWins(h, d, u, o) ==
    [heap |-> [h EXCEPT ![o] =
                  DictUpdate(DictUpdate(EmptyDict, ArgOrEmpty(h, u)), ArgOrEmpty(h, d))],
     ref |-> o]

\* Mutant: nested dictionaries are merged key by key into the default's nested
\* dictionary instead of being replaced.
UpdateModelArgsDeep(h, d, u, o) ==
    LET D == ArgOrEmpty(h, d)
        U == ArgOrEmpty(h, u)
        both == {k \in (DOMAIN D) \cap (DOMAIN U) : IsRef(D[k]) /\ IsRef(U[k])}
        merged == [k \in (DOMAIN D) \cup (DOMAIN U) |->
                     IF k \in both THEN D[k]
                     ELSE IF k \in DOMAIN U THEN U[k] ELSE D[k]]
        h1 == [x \in DOMAIN h |->
                 IF \E k \in both : D[k].ref = x
                 THEN LET k == CHOOSE kk \in both : D[kk].ref = x
                      IN DictUpdate(h[x], h[U[k].ref])
                 ELSE h[x]]
    IN  [heap |-> [h1 EXCEPT ![o] = merged], ref |-> o]

\* Mutant: `out = default_args` instead of `out = {}`.
UpdateModelArgsAlias(h, d, u, o) ==
    IF d = None
    THEN [heap |-> [h EXCEPT ![o] = DictUpdate(EmptyDict, ArgOrEmpty(h, u))], ref |-> o]
    ELSE [heap |-> [h EXCEPT ![d] = DictUpdate(h[d], ArgOrEmpty(h, u))], ref |-> d]

UpdateModelArgs(h, d, u, o) ==
    LET out0 == EmptyDict
        out1 == DictUpdate(out0, ArgOrEmpty(h, d))
        out2 == DictUpdate(out1, ArgOrEmpty(h, u))
    IN  [heap |-> [h EXCEPT ![o] = out2], ref |-> o]

(***************************************************************************)
(* make_megnet (kgcnn/literature/Megnet.py): the defaults of two of its    *)
(* sections, one with nested dictionaries and the one updated after the    *)
(* merge.                                                                  *)
(***************************************************************************)

Sections == <<"input_embedding", "state_ff_args">>

\* Objects of model_default (Megnet.py lines 77-90).
ObjInputEmbedding == 1
ObjNodes == 2
ObjEdges == 3
ObjState == 4
ObjStateFF == 5
\* Objects the caller passes in.
ObjUserEmbedding == 6
ObjUserNodes == 7
ObjUserStateFF == 8
NInit == ObjUserStateFF

\* Calls of update_model_args by callers other than make_megnet.
MaxDirect == 1
MaxObj == NInit + Len(Sections) + MaxDirect

model_default ==
    [input_embedding |-> ObjInputEmbedding, state_ff_args |-> ObjStateFF]

DefaultHeap ==
    (ObjInputEmbedding :> ("nodes" :> Ref(ObjNodes) @@ "edges" :> Ref(ObjEdges)
                           @@ "state" :> Ref(ObjState)
                           @@ "input_tensor_type" :> Scalar("ragged")))
    @@ (ObjNodes :> ("input_dim" :> Scalar("95") @@ "output_dim" :> Scalar("64")))
    @@ (ObjEdges :> ("input_dim" :> Scalar("5") @@ "output_dim" :> Scalar("64")))
    @@ (ObjState :> ("input_dim" :> Scalar("100") @@ "output_dim" :> Scalar("64")))
    @@ (ObjStateFF :> ("units" :> Scalar("[64, 32]")
                       @@ "activation" :> Scalar("kgcnn>softplus2")))

\* The dictionaries a caller may pass.
UserNodesChoices ==
    { [k \in K |-> Scalar("10")] : K \in SUBSET {"input_dim", "output_dim"} }
UserEmbeddingChoices ==
    { [k \in K |-> IF k = "nodes" THEN Ref(ObjUserNodes) ELSE Scalar("tensor")] :
        K \in SUBSET {"nodes", "input_tensor_type"} }
UserStateFFChoices ==
    { [k \in K |-> IF k = "units" THEN Scalar("[16]") ELSE Scalar("ragged")] :
        K \in SUBSET {"units", "input_tensor_type"} }

InitMerge ==
    /\ \E ue \in UserEmbeddingChoices, un \in UserNodesChoices, us \in UserStateFFChoices,
          pe \in BOOLEAN, ps \in BOOLEAN :
        /\ heap = [x \in 1..MaxObj |->
                     IF x \in DOMAIN DefaultHeap THEN DefaultHeap[x]
                     ELSE IF x = ObjUserEmbedding THEN ue
                     ELSE IF x = ObjUserNodes THEN un
                     ELSE IF x = ObjUserStateFF THEN us
                     ELSE EmptyDict]
        /\ user = [input_embedding |-> IF pe THEN ObjUserEmbedding ELSE None,
                   state_ff_args |-> IF ps THEN ObjUserStateFF ELSE None]
        \* an argument that is None, or a nested dict nobody refers to, is one case
        /\ (~pe => ue = EmptyDict)
        /\ (("nodes" \notin DOMAIN ue) => un = EmptyDict)
        /\ (~ps => us = EmptyDict)
    /\ heap0 = heap
    /\ nalloc = NInit
    /\ margs = [input_embedding |-> None, state_ff_args |-> None]
    /\ mpc = 1
    /\ ndirect = 0
    /\ call = [d |-> None, u |-> None, out |-> None, ret |-> EmptyDict,
               pre |-> heap, post |-> heap, n |-> NInit, made |-> FALSE]

\* One call: a fresh object is allocated for `out`, the call is recorded.
DoCall(d, u) ==
    LET o == nalloc + 1
        r == UpdateModelArgs(heap, d, u, o)
    IN  /\ heap' = r.heap
        /\ nalloc' = o
        /\ call' = [d |-> d, u |-> u, out |-> r.ref, ret |-> r.heap[r.ref],
                    pre |-> heap, post |-> r.heap, n |-> nalloc, made |-> TRUE]

\* Megnet.py lines 94-101: section = update_model_args(model_default[section], section)
MakeMegnetMerge ==
    /\ mpc \in 1..Len(Sections)
    /\ nalloc < MaxObj
    /\ LET s == Sections[mpc]
       IN  /\ DoCall(model_default[s], user[s])
           /\ margs' = [margs EXCEPT ![s] = call'.out]
    /\ mpc' = mpc + 1
    /\ UNCHANGED <<heap0, user, ndirect>>
    /\ UNCHANGED OthersOfMerge

\* Megnet.py line 102: state_ff_args.update({"input_tensor_type": "tensor"})
MakeMegnetStateUpdate ==
    /\ mpc = Len(Sections) + 1
    /\ heap' = [heap EXCEPT ![margs["state_ff_args"]] =
                  DictUpdate(@, "input_tensor_type" :> Scalar("tensor"))]
    /\ mpc' = mpc + 1
    /\ UNCHANGED <<nalloc, heap0, user, margs, ndirect, call>>
    /\ UNCHANGED OthersOfMerge

\* Another model builder calls update_model_args(d, u) on dictionaries it holds
\* (or None).
TopObjects == {None, ObjInputEmbedding, ObjStateFF, ObjUserEmbedding, ObjUserStateFF}

DirectCall ==
    /\ ndirect < MaxDirect
    /\ nalloc < MaxObj
    /\ \E d \in TopObjects, u \in TopObjects : DoCall(d, u)
    /\ ndirect' = ndirect + 1
    /\ UNCHANGED <<heap0, user, margs, mpc>>
    /\ UNCHANGED OthersOfMerge

NextMerge == MakeMegnetMerge \/ MakeMegnetStateUpdate \/ DirectCall

(***************************************************************************)
(* deserialize (kgcnn/data/serial.py lines 21-70)                          *)
(***************************************************************************)

\* serial.py lines 13-17
global_dataset_register == {"MoleculeNetDataset", "QMDataset", "GraphTUDataset"}

\* Class names a descriptor may carry: one of the register, one that is not.
ClassNames == {"QMDataset", "MyDataset"}

\* Length of a descriptor's `methods` list.
MaxMethods == 2

\* The methods a dataset instance has (serial.py line 23 names them).
InstanceMethods == {"prepare_data", "read_in_memory", "set_attributes"}

\* One {method_name: kwargs} entry, and the items a `methods` list may hold: a
\* dictionary with one key or with two keys, in insertion order.
Entries ==
    { <<"prepare_data", "{}">>, <<"prepare_data", "{overwrite: True}">>,
      <<"read_in_memory", "{}">>, <<"no_such_method", "{}">> }
MethodItems ==
    { <<e>> : e \in Entries }
        \cup { <<p[1], p[2]>> : p \in {q \in Entries \X Entries : q[1][1] # q[2][1]} }

RECURSIVE SeqsUpTo(_, _)
SeqsUpTo(S, len) ==
    IF len = 0 THEN { <<>> }
    ELSE LET shorter == SeqsUpTo(S, len - 1)
         IN  shorter \cup { Append(q, x) : q \in {r \in shorter : Len(r) = len - 1}, x \in S }

Descriptors ==
    [type : {"dict"}, class_name : ClassNames, has_config : BOOLEAN,
     has_methods : BOOLEAN, methods : SeqsUpTo(MethodItems, MaxMethods)]
        \cup [type : {"str", "other"}, class_name : ClassNames, has_config : {FALSE},
              has_methods : {FALSE}, methods : { <<>> }]

\* lines 39-40: a string becomes {"class_name": dataset, "config": {}}
Normalize(descr) ==
    IF descr.type = "str"
    THEN [type |-> "dict", class_name |-> descr.class_name, has_config |-> TRUE,
          config |-> "{}", has_methods |-> FALSE, methods |-> <<>>]
    ELSE [type |-> "dict", class_name |-> descr.class_name, has_config |-> descr.has_config,
          config |-> "{file_name: x.xyz}", has_methods |-> descr.has_methods,
          methods |-> descr.methods]

\* lines 45 and 53: config = dataset["config"] if "config" in dataset else {}
ConfigOf(nd) == IF nd.has_config THEN nd.config ELSE "{}"

NoException == [type |-> "none", name |-> ""]
NoInstance == [made |-> FALSE, origin |-> "", name |-> "", config |-> ""]

\* lines 42-57: the class is looked up in the register, else imported from
\* kgcnn.data.datasets.<name>; only ModuleNotFoundError is caught.
\* imp: "none" (no such module), "noclass" (the module has no attribute of that
\* name), "class". ctor: "ok", or the exception the constructor raises.
ResolveClass(name, imp, ctor, config) ==
    IF name \in global_dataset_register
    THEN IF ctor = "ok"
         THEN [inst |-> [made |-> TRUE, origin |-> "register", name |-> name,
                         config |-> config],
               exc |-> NoException]
         ELSE [inst |-> NoInstance, exc |-> [type |-> ctor, name |-> ""]]
    ELSE IF imp = "none"
         THEN [inst |-> NoInstance, exc |-> [type |-> "NotImplementedError", name |-> name]]
    ELSE IF imp = "noclass"
         THEN [inst |-> NoInstance, exc |-> [type |-> "AttributeError", name |-> name]]
    ELSE IF ctor = "ok"
         THEN [inst |-> [made |-> TRUE, origin |-> "datasets", name |-> name,
                         config |-> config],
               exc |-> NoException]
    ELSE IF ctor = "ModuleNotFoundError"
         THEN [inst |-> NoInstance, exc |-> [type |-> "NotImplementedError", name |-> name]]
    ELSE [inst |-> NoInstance, exc |-> [type |-> ctor, name |-> ""]]

\* Mutant: no hasattr check before the call.
HasAttrAlways(i, method) == TRUE

\* line 65: hasattr(ds_instance, method)
HasAttr(i, method) == i.made /\ method \in InstanceMethods

\* Mutant: the method is called without its kwargs.
InvokeEventNoKwargs(method, kwargs) == [kind |-> "call", name |-> method, kwargs |-> "{}"]

\* line 66: getattr(ds_instance, method)(**kwargs)
InvokeEvent(method, kwargs) == [kind |-> "call", name |-> method, kwargs |-> kwargs]

\* line 68: ds_instance.error("Dataset class does not have property %s" % method)
ErrorEvent(method) == [kind |-> "error", name |-> method, kwargs |-> ""]

InitSerial ==
    /\ dataset \in Descriptors
    /\ importResult \in {"none", "noclass", "class"}
    /\ ctorResult \in {"ok", "TypeError", "ModuleNotFoundError"}
    \* nothing of the descriptor but its class is read when the constructor raises
    /\ (ctorResult # "ok" => dataset.methods = <<>>)
    /\ (~dataset.has_methods => dataset.methods = <<>>)
    /\ spc = "start"
    /\ inst = NoInstance
    /\ idx = 1
    /\ sub = 1
    /\ log = <<>>
    /\ exc = NoException

\* lines 33-57: the type check, the lookup of the class and the construction.
DeserializeResolve ==
    /\ spc = "start"
    /\ IF dataset.type = "other"
       THEN /\ log' = Append(log, [kind |-> "warning", name |-> "", kwargs |-> ""])
            /\ spc' = "returned"
            /\ UNCHANGED <<inst, exc>>
       ELSE LET nd == Normalize(dataset)
                r == ResolveClass(nd.class_name, importResult, ctorResult, ConfigOf(nd))
            IN  /\ inst' = r.inst
                /\ exc' = r.exc
                /\ spc' = IF r.inst.made THEN "methods" ELSE "raised"
                /\ log' = IF r.inst.made
                          THEN Append(log, [kind |-> "construct", name |-> nd.class_name,
                                            kwargs |-> r.inst.config])
                          ELSE log
    /\ UNCHANGED <<dataset, importResult, ctorResult, idx, sub>>
    /\ UNCHANGED OthersOfSerial

\* The loop of lines 61-68 is at an entry.
AtEntry ==
    /\ spc = "methods"
    /\ Normalize(dataset).has_methods
    /\ idx <= Len(Normalize(dataset).methods)

\* lines 63-64: the next entry, in the list's and the dictionary's order.
Advance ==
    LET item == Normalize(dataset).methods[idx]
    IN  IF sub < Len(item)
        THEN idx' = idx /\ sub' = sub + 1
        ELSE idx' = idx + 1 /\ sub' = 1

\* lines 65-66: the instance has the method and it is called; it returns or raises.
DeserializeInvoke ==
    /\ AtEntry
    /\ LET e == Normalize(dataset).methods[idx][sub]
       IN  /\ HasAttr(inst, e[1])
           /\ log' = Append(log, InvokeEvent(e[1], e[2]))
           /\ \/ /\ Advance
                 /\ UNCHANGED <<spc, exc>>
              \/ /\ spc' = "raised"
                 /\ exc' = [type |-> "MethodException", name |-> e[1]]
                 /\ UNCHANGED <<idx, sub>>
    /\ UNCHANGED <<dataset, importResult, ctorResult, inst>>
    /\ UNCHANGED OthersOfSerial

\* lines 67-68: the instance has no such attribute: an error is logged.
DeserializeUnknown ==
    /\ AtEntry
    /\ LET e == Normalize(dataset).methods[idx][sub]
       IN  /\ ~HasAttr(inst, e[1])
           /\ log' = Append(log, ErrorEvent(e[1]))
           /\ Advance
    /\ UNCHANGED <<dataset, importResult, ctorResult, inst, spc, exc>>
    /\ UNCHANGED OthersOfSerial

\* line 70: return ds_instance
DeserializeReturn ==
    /\ spc = "methods"
    /\ ~AtEntry
    /\ spc' = "returned"
    /\ UNCHANGED <<dataset, importResult, ctorResult, inst, idx, sub, log, exc>>
    /\ UNCHANGED OthersOfSerial

NextSerial ==
    DeserializeResolve \/ DeserializeInvoke \/ DeserializeUnknown \/ DeserializeReturn


(***************************************************************************)
(* QMDataset (kgcnn/data/qm.py)                                            *)
(***************************************************************************)

\* qm.py lines 22-35
global_proton_dict ==
    "H" :> 1 @@ "He" :> 2 @@ "Li" :> 3 @@ "Be" :> 4 @@ "B" :> 5 @@ "C" :> 6 @@
    "N" :> 7 @@ "O" :> 8 @@ "F" :> 9 @@ "Ne" :> 10 @@ "Na" :> 11 @@ "Mg" :> 12 @@
    "Al" :> 13 @@ "Si" :> 14 @@ "P" :> 15 @@ "S" :> 16 @@ "Cl" :> 17 @@ "Ar" :> 18 @@
    "K" :> 19 @@ "Ca" :> 20 @@ "Sc" :> 21 @@ "Ti" :> 22 @@ "V" :> 23 @@ "Cr" :> 24 @@
    "Mn" :> 25 @@ "Fe" :> 26 @@ "Co" :> 27 @@ "Ni" :> 28 @@ "Cu" :> 29 @@ "Zn" :> 30 @@
    "Ga" :> 31 @@ "Ge" :> 32 @@ "As" :> 33 @@ "Se" :> 34 @@ "Br" :> 35 @@ "Kr" :> 36 @@
    "Rb" :> 37 @@ "Sr" :> 38 @@ "Y" :> 39 @@ "Zr" :> 40 @@ "Nb" :> 41 @@ "Mo" :> 42 @@
    "Tc" :> 43 @@ "Ru" :> 44 @@ "Rh" :> 45 @@ "Pd" :> 46 @@ "Ag" :> 47 @@ "Cd" :> 48 @@
    "In" :> 49 @@ "Sn" :> 50 @@ "Sb" :> 51 @@ "Te" :> 52 @@ "I" :> 53 @@ "Xe" :> 54 @@
    "Cs" :> 55 @@ "Ba" :> 56 @@ "La" :> 57 @@ "Ce" :> 58 @@ "Pr" :> 59 @@ "Nd" :> 60 @@
    "Pm" :> 61 @@ "Sm" :> 62 @@ "Eu" :> 63 @@ "Gd" :> 64 @@ "Tb" :> 65 @@ "Dy" :> 66 @@
    "Ho" :> 67 @@ "Er" :> 68 @@ "Tm" :> 69 @@ "Yb" :> 70 @@ "Lu" :> 71 @@ "Hf" :> 72 @@
    "Ta" :> 73 @@ "W" :> 74 @@ "Re" :> 75 @@ "Os" :> 76 @@ "Ir" :> 77 @@ "Pt" :> 78 @@
    "Au" :> 79 @@ "Hg" :> 80 @@ "Tl" :> 81 @@ "Pb" :> 82 @@ "Bi" :> 83 @@ "Po" :> 84 @@
    "At" :> 85 @@ "Rn" :> 86 @@ "Fr" :> 87 @@ "Ra" :> 88 @@ "Ac" :> 89 @@ "Th" :> 90 @@
    "Pa" :> 91 @@ "U" :> 92 @@ "Np" :> 93 @@ "Pu" :> 94 @@ "Am" :> 95 @@ "Cm" :> 96 @@
    "Bk" :> 97 @@ "Cf" :> 98 @@ "Es" :> 99 @@ "Fm" :> 100 @@ "Md" :> 101 @@
    "No" :> 102 @@ "Lr" :> 103 @@ "Rf" :> 104 @@ "Db" :> 105 @@ "Sg" :> 106 @@
    "Bh" :> 107 @@ "Hs" :> 108 @@ "Mt" :> 109 @@ "Ds" :> 110 @@ "Rg" :> 111 @@
    "Cn" :> 112 @@ "Nh" :> 113 @@ "Fl" :> 114 @@ "Mc" :> 115 @@ "Lv" :> 116 @@
    "Ts" :> 117 @@ "Og" :> 118 @@ "Uue" :> 119
\* Mutant: the keys of the inverse are one less than the numbers.
InverseDictOffByOne(d) ==
    [v \in {d[k] - 1 : k \in DOMAIN d} |-> CHOOSE k \in DOMAIN d : d[k] - 1 = v]

\* line 36: {value: key for key, value in d.items()}: the keys are the values of
\* d, each mapped to a key of d that has it (to the only one when d is injective;
\* of several, python keeps the last and this operator an unspecified one).
InverseDict(d) ==
    [v \in {d[k] : k \in DOMAIN d} |-> CHOOSE k \in DOMAIN d : d[k] = v]

\* line 36
inverse_global_proton_dict == InverseDict(global_proton_dict)

\* Molecules an xyz file may list. D2 carries the symbol D, which the table lacks.
Molecules == {"HCN", "He", "D2"}

\* The atom lines of a molecule: symbol, x, y, z.
Atoms(m) ==
    CASE m = "HCN" -> << <<"H", 0, 0, 0>>, <<"C", 1, 0, 0>>, <<"N", 2, 0, 0>> >>
      [] m = "He" -> << <<"He", 0, 0, 0>> >>
      [] m = "D2" -> << <<"D", 0, 0, 0>>, <<"D", 0, 0, 1>> >>

\* The bond block structure inference gives for a molecule: (a, b, order), 1-based.
Bonds(m) ==
    CASE m = "HCN" -> << <<1, 2, 1>>, <<2, 3, 3>> >>
      [] m = "He" -> << >>
      [] m = "D2" -> << <<1, 2, 1>> >>

\* Molecules in an xyz file, and replacements of the xyz file.
MaxMol == 2
MaxChanges == 1

XyzFiles == SeqsUpTo(Molecules, MaxMol) \ { <<>> }

\* read_xyz_file: the nested list [[symbol, x, y, z], ...] per molecule.
ReadXyzFile(file) == [i \in 1..Len(file) |-> Atoms(file[i])]

\* convert_xyz_to_mol_ob on one molecule: a mol block, without structure when the
\* tool is not available.
ConvertXyzToMolOb(m, tool) == [mol |-> m, ok |-> tool]

\* lines 52-68: _make_mol_list, one mol block per molecule, in order.
MakeMolList(file, tool) == [i \in 1..Len(file) |-> ConvertXyzToMolOb(file[i], tool)]

\* write_mol_block_list_to_sdf: the file holds the blocks.
WriteMolBlockListToSdf(mb) == [exists |-> TRUE, blocks |-> mb]

NoFile == [exists |-> FALSE, blocks |-> <<>>]

\* dummy_load_sdf_file: the blocks, or None (with a warning) when the file holds
\* no structure.
DummyLoadSdfFile(file) ==
    IF \E i \in 1..Len(file.blocks) : ~file.blocks[i].ok
    THEN [none |-> TRUE, list |-> <<>>, warned |-> TRUE]
    ELSE [none |-> FALSE, list |-> file.blocks, warned |-> FALSE]

\* parse_mol_str(x)[5]: the bond records of a mol block.
ParseMolStrBonds(block) == Bonds(block.mol)

\* add_edges_reverse_indices(indices, attributes): every edge that is no self-loop
\* is added once more, reversed, with its attribute.
AddEdgesReverseIndices(indices, attributes) ==
    LET NotLoop(i) == indices[i][1] # indices[i][2]
        rev == SelectSeq([i \in 1..Len(indices) |-> i], NotLoop)
    IN  [indices |-> indices \o [i \in 1..Len(rev) |-> <<indices[rev[i]][2], indices[rev[i]][1]>>],
         attributes |-> attributes \o [i \in 1..Len(rev) |-> attributes[rev[i]]]]

\* Mutant: the edges as read, without their reverses.
BuildEdgesNoReverse(x) ==
    [index |-> [i \in 1..Len(x) |-> <<x[i][1] - 1, x[i][2] - 1>>],
     attr |-> [i \in 1..Len(x) |-> <<x[i][3]>>]]

\* Mutant: the 1-based indices of the bond records are stored as they are.
BuildEdgesNoShift(x) ==
    LET temp == AddEdgesReverseIndices([i \in 1..Len(x) |-> <<x[i][1], x[i][2]>>],
                                       [i \in 1..Len(x) |-> <<x[i][3]>>])
    IN  [index |-> temp.indices, attr |-> temp.attributes]

\* lines 129-131: the edges of one molecule from its bond records x: columns 1-2
\* are the indices, the columns from 3 on the attributes; the indices are shifted
\* to 0-based, the attributes become floats (of the same value).
BuildEdges(x) ==
    LET temp == AddEdgesReverseIndices([i \in 1..Len(x) |-> <<x[i][1], x[i][2]>>],
                                       [i \in 1..Len(x) |-> <<x[i][3]>>])
    IN  [index |-> [i \in 1..Len(temp.indices) |->
                      <<temp.indices[i][1] - 1, temp.indices[i][2] - 1>>],
         attr |-> temp.attributes]

\* Mutant: an existing file is always reused.
UseCacheIgnoresOverwrite(exists, overwrite) == exists

\* line 80: os.path.exists(...) and not overwrite
UseCache(exists, overwrite) == exists /\ ~overwrite

\* Mutant: a lookup with a default (dict.get(symbol, 0)) instead of a KeyError.
LookupProtonWithDefault(symbol) ==
    [found |-> TRUE,
     number |-> IF symbol \in DOMAIN global_proton_dict
                THEN global_proton_dict[symbol] ELSE 0]

\* line 107: self.global_proton_dict[x[0]], the value of the key or a KeyError
LookupProton(symbol) ==
    IF symbol \in DOMAIN global_proton_dict
    THEN [found |-> TRUE, number |-> global_proton_dict[symbol]]
    ELSE [found |-> FALSE, number |-> 0]

\* line 107: every symbol is a key of global_proton_dict
SymbolsKnown(xyz_list) ==
    \A i \in 1..Len(xyz_list) : \A j \in 1..Len(xyz_list[i]) :
        LookupProton(xyz_list[i][j][1]).found

\* Mutant: length, node_coordinates and node_symbol are assigned before the
\* atomic numbers are looked up.
DatasetOnKeyErrorPartial(before, symbol, coords, file) ==
    [before EXCEPT !.set = @ \cup {"length", "node_coordinates", "node_symbol"},
                   !.length = Len(symbol),
                   !.node_coordinates = coords,
                   !.node_symbol = symbol,
                   !.node_src = file]

\* lines 105-111: symbol, coords and nodes are computed before the first
\* assignment to self, so a KeyError at line 107 leaves the dataset as it was.
DatasetOnKeyError(before, symbol, coords, file) == before

UnsetDataset ==
    [set |-> {}, length |-> 0, node_coordinates |-> <<>>, node_symbol |-> <<>>,
     node_number |-> <<>>, edge_indices |-> <<>>, edge_attributes |-> <<>>,
     node_src |-> <<>>, edge_src |-> <<>>]

\* What an operation did: flags, and the files and the dataset it started with.
Did(op, overwrite, read, inferred, wrote, result, warned, built) ==
    [op |-> op, overwrite |-> overwrite, existed |-> sdf.exists, read |-> read,
     inferred |-> inferred, wrote |-> wrote, result |-> result, warned |-> warned,
     built |-> built, xyz |-> xyz, sdf |-> sdf, ds |-> ds]

InitQM ==
    /\ xyz \in XyzFiles
    /\ sdf = NoFile
    /\ obabel \in BOOLEAN
    /\ ds = UnsetDataset
    /\ nchanges = 0
    /\ last = [op |-> "init", overwrite |-> FALSE, existed |-> FALSE, read |-> FALSE,
               inferred |-> FALSE, wrote |-> FALSE, result |-> "", warned |-> FALSE,
               built |-> FALSE, xyz |-> xyz, sdf |-> NoFile, ds |-> UnsetDataset]

\* lines 70-91: prepare_data(overwrite)
PrepareData ==
    /\ \E overwrite \in BOOLEAN :
        IF UseCache(sdf.exists, overwrite)
        THEN /\ last' = Did("prepare_data", overwrite, FALSE, FALSE, FALSE,
                            "returned", FALSE, FALSE)
             /\ UNCHANGED sdf
        ELSE LET xyz_list == xyz
                 mb == MakeMolList(xyz_list, obabel)
             IN  /\ sdf' = WriteMolBlockListToSdf(mb)
                 /\ last' = Did("prepare_data", overwrite, TRUE, TRUE, TRUE,
                                "returned", FALSE, FALSE)
    /\ UNCHANGED <<xyz, obabel, ds, nchanges>>
    /\ UNCHANGED OthersOfQM

\* lines 97-135: read_in_memory()
ReadInMemory ==
    /\ LET xyz_list == ReadXyzFile(xyz)
           symbol == [i \in 1..Len(xyz_list) |->
                        [j \in 1..Len(xyz_list[i]) |-> xyz_list[i][j][1]]]
           coords == [i \in 1..Len(xyz_list) |->
                        [j \in 1..Len(xyz_list[i]) |->
                            <<xyz_list[i][j][2], xyz_list[i][j][3], xyz_list[i][j][4]>>]]
           nodes == [i \in 1..Len(xyz_list) |->
                        [j \in 1..Len(xyz_list[i]) |-> LookupProton(xyz_list[i][j][1]).number]]
           ds1 == [ds EXCEPT !.set = @ \cup {"length", "node_coordinates", "node_symbol",
                                              "node_number"},
                             !.length = Len(symbol),
                             !.node_coordinates = coords,
                             !.node_symbol = symbol,
                             !.node_number = nodes,
                             !.node_src = xyz]
           loaded == DummyLoadSdfFile(sdf)
           bond_info == [i \in 1..Len(loaded.list) |-> ParseMolStrBonds(loaded.list[i])]
           edges == [i \in 1..Len(bond_info) |-> BuildEdges(bond_info[i])]
       IN  IF ~SymbolsKnown(xyz_list)
           THEN \* line 107 raises KeyError, nothing is assigned
                /\ last' = Did("read_in_memory", FALSE, TRUE, FALSE, FALSE,
                               "KeyError", FALSE, FALSE)
                /\ ds' = DatasetOnKeyError(ds, symbol, coords, xyz)
           ELSE IF ~sdf.exists
           THEN \* lines 115-117
                /\ ds' = ds1
                /\ last' = Did("read_in_memory", FALSE, TRUE, FALSE, FALSE,
                               "returned", TRUE, FALSE)
           ELSE IF loaded.none
           THEN \* line 121 is false
                /\ ds' = ds1
                /\ last' = Did("read_in_memory", FALSE, TRUE, FALSE, FALSE,
                               "returned", loaded.warned, FALSE)
           ELSE IF \E i \in 1..Len(bond_info) : bond_info[i] = <<>>
           THEN \* line 129: x[:, :2] on the one-dimensional array of no bonds
                /\ ds' = ds1
                /\ last' = Did("read_in_memory", FALSE, TRUE, FALSE, FALSE,
                               "IndexError", FALSE, FALSE)
           ELSE /\ ds' = [ds1 EXCEPT !.set = @ \cup {"edge_indices", "edge_attributes"},
                                     !.edge_indices =
                                         [i \in 1..Len(edges) |-> edges[i].index],
                                     !.edge_attributes =
                                         [i \in 1..Len(edges) |-> edges[i].attr],
                                     !.edge_src =
                                         [i \in 1..Len(loaded.list) |-> loaded.list[i].mol]]
                /\ last' = Did("read_in_memory", FALSE, TRUE, FALSE, FALSE,
                               "returned", FALSE, TRUE)
    /\ UNCHANGED <<xyz, sdf, obabel, nchanges>>
    /\ UNCHANGED OthersOfQM

\* The xyz file is replaced by another one.
ChangeXyz ==
    /\ nchanges < MaxChanges
    /\ \E f \in XyzFiles \ {xyz} : xyz' = f
    /\ nchanges' = nchanges + 1
    /\ last' = Did("change_xyz", FALSE, FALSE, FALSE, FALSE, "", FALSE, FALSE)
    /\ UNCHANGED <<sdf, obabel, ds>>
    /\ UNCHANGED OthersOfQM

\* The structure file disappears.
DeleteSdf ==
    /\ sdf.exists
    /\ sdf' = NoFile
    /\ last' = Did("delete_sdf", FALSE, FALSE, FALSE, FALSE, "", FALSE, FALSE)
    /\ UNCHANGED <<xyz, obabel, ds, nchanges>>
    /\ UNCHANGED OthersOfQM

NextQM == PrepareData \/ ReadInMemory \/ ChangeXyz \/ DeleteSdf


(***************************************************************************)
(* Specifications: each part runs on its own, the other parts' variables   *)
(* rest.                                                                   *)
(***************************************************************************)

(***************************************************************************)
(* make_megnet: the inputs and their optional embedding                    *)
(***************************************************************************)

MaxRank == 2

\* A dimension of a shape is None or a feature count F.
Dims == {"None", "F"}
Shapes == SeqsUpTo(Dims, MaxRank)

\* Megnet.py lines 77-79: the embedding arguments of the three inputs.
input_embedding ==
    [nodes |-> [input_dim |-> 95, output_dim |-> 64],
     edges |-> [input_dim |-> 5, output_dim |-> 64],
     state |-> [input_dim |-> 100, output_dim |-> 64]]

NoTensor == [layer |-> "none"]

\* ks.layers.Input(shape=..., name=...)
Input(shape, name) == [layer |-> "Input", name |-> name, shape |-> shape]

\* ks.layers.Embedding(**embedding_args)(tensor)
Embedding(embedding_args, tensor) ==
    [layer |-> "Embedding", args |-> embedding_args, input |-> tensor]

\* models.py lines 15-19
generate_node_embedding(tensor, shape, embedding_args) ==
    IF Len(shape) = 1 THEN Embedding(embedding_args, tensor) ELSE tensor

\* models.py lines 33-37
generate_edge_embedding(tensor, shape, embedding_args) ==
    IF Len(shape) = 1 THEN Embedding(embedding_args, tensor) ELSE tensor

\* Mutant: the state input is embedded when its shape has one dimension.
generate_state_embedding_rank_one(tensor, shape, embedding_args) ==
    IF Len(shape) = 1 THEN Embedding(embedding_args, tensor) ELSE tensor

\* models.py lines 51-55: len(input_state_shape) == 0
generate_state_embedding(tensor, shape, embedding_args) ==
    IF Len(shape) = 0 THEN Embedding(embedding_args, tensor) ELSE tensor

InitEmbed ==
    /\ input_node_shape \in Shapes
    /\ input_edge_shape \in Shapes
    /\ input_state_shape \in Shapes
    /\ node_input = NoTensor /\ edge_input = NoTensor /\ env_input = NoTensor
    /\ n = NoTensor /\ ed = NoTensor /\ uenv = NoTensor
    /\ epc = "start"

\* Megnet.py lines 105-108
MakeMegnetInputs ==
    /\ epc = "start"
    /\ node_input' = Input(input_node_shape, "node_input")
    /\ edge_input' = Input(input_edge_shape, "edge_input")
    /\ env_input' = Input(input_state_shape, "state_input")
    /\ epc' = "inputs"
    /\ UNCHANGED <<input_node_shape, input_edge_shape, input_state_shape, n, ed, uenv>>
    /\ UNCHANGED OthersOfEmbed

\* Megnet.py line 109
MakeMegnetNodeEmbedding ==
    /\ epc = "inputs"
    /\ n' = generate_node_embedding(node_input, input_node_shape, input_embedding.nodes)
    /\ epc' = "node"
    /\ UNCHANGED <<input_node_shape, input_edge_shape, input_state_shape,
                   node_input, edge_input, env_input, ed, uenv>>
    /\ UNCHANGED OthersOfEmbed

\* Megnet.py line 110
MakeMegnetEdgeEmbedding ==
    /\ epc = "node"
    /\ ed' = generate_edge_embedding(edge_input, input_edge_shape, input_embedding.edges)
    /\ epc' = "edge"
    /\ UNCHANGED <<input_node_shape, input_edge_shape, input_state_shape,
                   node_input, edge_input, env_input, n, uenv>>
    /\ UNCHANGED OthersOfEmbed

\* Megnet.py line 111
MakeMegnetStateEmbedding ==
    /\ epc = "edge"
    /\ uenv' = generate_state_embedding(env_input, input_state_shape, input_embedding.state)
    /\ epc' = "state"
    /\ UNCHANGED <<input_node_shape, input_edge_shape, input_state_shape,
                   node_input, edge_input, env_input, n, ed>>
    /\ UNCHANGED OthersOfEmbed

NextEmbed ==
    \/ MakeMegnetInputs
    \/ MakeMegnetNodeEmbedding
    \/ MakeMegnetEdgeEmbedding
    \/ MakeMegnetStateEmbedding


RestMerge ==
    /\ heap = <<>> /\ nalloc = 0 /\ heap0 = <<>> /\ user = <<>> /\ margs = <<>>
    /\ mpc = 0 /\ ndirect = 0 /\ call = <<>>

RestSerial ==
    /\ dataset = <<>> /\ importResult = "" /\ ctorResult = "" /\ spc = "" /\ inst = <<>>
    /\ idx = 0 /\ sub = 0 /\ log = <<>> /\ exc = <<>>

RestQM ==
    /\ xyz = <<>> /\ sdf = <<>> /\ obabel = FALSE /\ ds = <<>> /\ nchanges = 0
    /\ last = <<>>

RestEmbed ==
    /\ input_node_shape = <<>> /\ input_edge_shape = <<>> /\ input_state_shape = <<>>
    /\ node_input = <<>> /\ edge_input = <<>> /\ env_input = <<>>
    /\ n = <<>> /\ ed = <<>> /\ uenv = <<>> /\ epc = ""

StartMerge == InitMerge /\ RestSerial /\ RestQM /\ RestEmbed

SpecMerge == StartMerge /\ [][NextMerge]_vars

StartSerial == InitSerial /\ RestMerge /\ RestQM /\ RestEmbed

SpecSerial == StartSerial /\ [][NextSerial]_vars

StartQM == InitQM /\ RestMerge /\ RestSerial /\ RestEmbed

SpecQM == StartQM /\ [][NextQM]_vars

StartEmbed == InitEmbed /\ RestMerge /\ RestSerial /\ RestQM

SpecEmbed == StartEmbed /\ [][NextEmbed]_vars

(***************************************************************************)
(* Claims about deserialize, checked under SpecSerial.                     *)
(***************************************************************************)

RECURSIVE Flatten(_)
Flatten(ml) == IF ml = <<>> THEN <<>> ELSE Head(ml) \o Flatten(Tail(ml))

IsPrefix(a, b) == Len(a) <= Len(b) /\ \A i \in 1..Len(a) : a[i] = b[i]

IsCall(ev) == ev.kind = "call"
IsMethodEvent(ev) == ev.kind \in {"call", "error"}
IsKnownEntry(e) == e[1] \in InstanceMethods

\* The entries of the descriptor's methods list, one after the other.
ListedEntries == Flatten(dataset.methods)
\* The calls made so far, as (method, kwargs).
CallsMade ==
    LET c == SelectSeq(log, IsCall)
    IN  [i \in 1..Len(c) |-> <<c[i].name, c[i].kwargs>>]
\* What the list asks to be done, entry by entry.
EventsListed ==
    [i \in 1..Len(ListedEntries) |->
        IF IsKnownEntry(ListedEntries[i])
        THEN [kind |-> "call", name |-> ListedEntries[i][1], kwargs |-> ListedEntries[i][2]]
        ELSE [kind |-> "error", name |-> ListedEntries[i][1], kwargs |-> ""]]

\* C2: the methods the instance has are called in the order of the list, each
\* once and with its own kwargs (the calls made are always a prefix of the listed
\* ones, and all of them once deserialize has returned), no call precedes the
\* construction of the instance, and a descriptor without `methods` calls nothing.
C2_MethodsInOrder ==
    /\ IsPrefix(CallsMade, SelectSeq(ListedEntries, IsKnownEntry))
    /\ (spc = "returned" => CallsMade = SelectSeq(ListedEntries, IsKnownEntry))
    /\ (CallsMade # <<>> => inst.made /\ log[1].kind = "construct")
    /\ (~dataset.has_methods => CallsMade = <<>>)

\* deserialize returned after two different calls, one of them with kwargs.
C2_Witness ==
    /\ spc = "returned"
    /\ Len(CallsMade) >= 2
    /\ CallsMade[1] = <<"prepare_data", "{overwrite: True}">>
    /\ CallsMade[2] = <<"read_in_memory", "{}">>

\* C3: an entry naming a method the instance does not have raises nothing: it is
\* logged as an error, the entries after it are still handled in order, and the
\* instance is returned; an exception after the construction comes from a method
\* that was called, never from an unknown name.
C3_UnknownMethodIsSoftError ==
    /\ IsPrefix(SelectSeq(log, IsMethodEvent), EventsListed)
    /\ (spc = "returned" /\ dataset.type # "other" =>
            inst.made /\ SelectSeq(log, IsMethodEvent) = EventsListed)
    /\ (spc = "raised" /\ inst.made =>
            /\ exc.type = "MethodException"
            /\ exc.name \in InstanceMethods
            /\ log[Len(log)] = EventsListed[Len(SelectSeq(log, IsMethodEvent))]
            /\ log[Len(log)].kind = "call")

\* deserialize returned, and a method was called after an unknown name was logged.
C3_Witness ==
    /\ spc = "returned"
    /\ \E i, j \in 1..Len(log) : i < j /\ log[i].kind = "error" /\ log[j].kind = "call"

\* C4: the class is taken from the register first; a class_name that is neither
\* in the register nor a class of the module kgcnn.data.datasets.<class_name>
\* (no such module, or a module without that class) raises NotImplementedError
\* naming it, and nothing is constructed or called.
C4_UnresolvedRaisesNotImplemented ==
    (spc # "start" /\ dataset.type # "other") =>
        /\ (dataset.class_name \in global_dataset_register /\ inst.made
                => inst.origin = "register")
        /\ (dataset.class_name \notin global_dataset_register
              /\ importResult \in {"none", "noclass"}
                => /\ spc = "raised"
                   /\ exc = [type |-> "NotImplementedError", name |-> dataset.class_name]
                   /\ ~inst.made
                   /\ log = <<>>)

(***************************************************************************)
(* Claims about QMDataset, checked under SpecQM.                           *)
(***************************************************************************)

NodeFields == {"node_number", "node_symbol", "node_coordinates"}
EdgeFields == {"edge_indices", "edge_attributes"}

\* C5: prepare_data(overwrite=False) with the structure file in place returns
\* without reading the xyz file, inferring structure or writing, and leaves the
\* files and the dataset as they were; prepare_data(overwrite=True) always reads,
\* infers and writes.
C5_PrepareDataIdempotent ==
    last.op = "prepare_data" =>
        /\ (last.existed /\ ~last.overwrite =>
                /\ ~last.read /\ ~last.inferred /\ ~last.wrote
                /\ last.result = "returned"
                /\ xyz = last.xyz /\ sdf = last.sdf /\ ds = last.ds)
        /\ (last.overwrite =>
                /\ last.read /\ last.inferred /\ last.wrote
                /\ sdf.exists
                /\ Len(sdf.blocks) = Len(xyz)
                /\ \A i \in 1..Len(xyz) : sdf.blocks[i].mol = xyz[i])

\* prepare_data(overwrite=False) found the structure file of an xyz file that has
\* been replaced since, and left it.
C5_Witness ==
    /\ last.op = "prepare_data" /\ last.existed /\ ~last.overwrite
    /\ Len(sdf.blocks) # Len(xyz)

\* The structure file gives the load no bond information.
NoBondInformation(file) ==
    \/ ~file.exists
    \/ \E i \in 1..Len(file.blocks) : ~file.blocks[i].ok
    \/ \A i \in 1..Len(file.blocks) : Bonds(file.blocks[i].mol) = <<>>

\* C6: when the load has no bond information (no structure file, a file without
\* structure, or one without any bond record), read_in_memory of an xyz file of
\* known symbols returns with length, node_number and node_coordinates of the xyz
\* file, leaves edge_indices and edge_attributes as they were, and warns.
C6_NoBondsDegradesGracefully ==
    (last.op = "read_in_memory" /\ SymbolsKnown(ReadXyzFile(last.xyz))
        /\ NoBondInformation(last.sdf)) =>
            /\ last.result = "returned"
            /\ last.warned
            /\ {"length", "node_number", "node_coordinates"} \subseteq ds.set
            /\ ds.length = Len(xyz)
            /\ ds.node_src = xyz
            /\ ds.set \cap EdgeFields = last.ds.set \cap EdgeFields
            /\ ds.edge_indices = last.ds.edge_indices
            /\ ds.edge_attributes = last.ds.edge_attributes

\* C7: the per-graph lists that are set all have `length` entries, and entry i of
\* each is about the same molecule.
C7_ListsAligned ==
    /\ \A f \in ds.set \cap (NodeFields \cup EdgeFields) : Len(ds[f]) = ds.length
    /\ (ds.set \cap NodeFields # {} /\ ds.set \cap EdgeFields # {}
            => ds.edge_src = ds.node_src)

ReverseOf(e) == <<e[2], e[1]>>
HasSelfLoop(bonds) == \E i \in 1..Len(bonds) : bonds[i][1] = bonds[i][2]

\* C8: the edge_indices entry read_in_memory builds from a molecule's bond
\* records (none a self-loop) has twice as many rows as there are records, as has
\* the edge_attributes entry, and every stored edge (a, b) has its reverse (b, a)
\* stored with the same attribute.
C8_ReverseEdges ==
    (last.op = "read_in_memory" /\ last.built) =>
        \A i \in 1..Len(sdf.blocks) :
            LET bonds == Bonds(sdf.blocks[i].mol)
                ei == ds.edge_indices[i]
                ea == ds.edge_attributes[i]
            IN  ~HasSelfLoop(bonds) =>
                    /\ Len(ei) = 2 * Len(bonds)
                    /\ Len(ea) = Len(ei)
                    /\ \A r \in 1..Len(ei) : \E q \in 1..Len(ei) :
                           ei[q] = ReverseOf(ei[r]) /\ ea[q] = ea[r]

\* read_in_memory built the edges of a molecule with two bonds of different order.
C8_Witness ==
    /\ last.op = "read_in_memory" /\ last.built
    /\ \E i \in 1..Len(sdf.blocks) :
        /\ Len(Bonds(sdf.blocks[i].mol)) = 2
        /\ Len(ds.edge_indices[i]) = 4
        /\ \E r, q \in 1..4 : ds.edge_attributes[i][r] # ds.edge_attributes[i][q]

ProtonNumbers == {global_proton_dict[s] : s \in DOMAIN global_proton_dict}

\* C12: global_proton_dict maps 119 symbols one-to-one onto 1..119, and
\* inverse_global_proton_dict maps 1..119 back: each number to the symbol that has
\* it, each symbol's number to the symbol, also for the numbers and symbols
\* read_in_memory stored.
C12_ProtonDictBijection ==
    /\ DOMAIN inverse_global_proton_dict = 1..119
    /\ ProtonNumbers = 1..119
    /\ Cardinality(DOMAIN global_proton_dict) = 119
    /\ \A s \in DOMAIN global_proton_dict :
           inverse_global_proton_dict[global_proton_dict[s]] = s
    /\ \A z \in 1..119 : global_proton_dict[inverse_global_proton_dict[z]] = z
    /\ "node_number" \in ds.set =>
           \A i \in 1..Len(ds.node_number) : \A j \in 1..Len(ds.node_number[i]) :
               inverse_global_proton_dict[ds.node_number[i][j]] = ds.node_symbol[i][j]

\* read_in_memory stored the numbers 1, 6, 7 and the inverse table gives H, C, N.
C12_Witness ==
    /\ last.op = "read_in_memory" /\ "node_number" \in ds.set
    /\ \E i \in 1..Len(ds.node_number) :
        /\ ds.node_number[i] = <<1, 6, 7>>
        /\ [j \in 1..3 |-> inverse_global_proton_dict[ds.node_number[i][j]]] = <<"H", "C", "N">>
        /\ ds.node_symbol[i] = <<"H", "C", "N">>

StoredEdges(i) ==
    { <<ds.edge_indices[i][r], ds.edge_attributes[i][r]>> : r \in 1..Len(ds.edge_indices[i]) }
ExpectedEdges(bonds) ==
    UNION { { <<<<bonds[k][1] - 1, bonds[k][2] - 1>>, <<bonds[k][3]>>>>,
              <<<<bonds[k][2] - 1, bonds[k][1] - 1>>, <<bonds[k][3]>>>> } : k \in 1..Len(bonds) }

\* C14: for a bond record (a, b, order) of a molecule with n atoms, read_in_memory
\* stores the edges (a-1, b-1) and (b-1, a-1), both with the attribute order and
\* nothing else, so every stored index is in 0..n-1.
C14_ZeroBasedIndices ==
    (last.op = "read_in_memory" /\ last.built) =>
        \A i \in 1..Len(sdf.blocks) :
            LET bonds == Bonds(sdf.blocks[i].mol)
                natoms == Len(Atoms(sdf.blocks[i].mol))
            IN  /\ Len(ds.edge_attributes[i]) = Len(ds.edge_indices[i])
                /\ StoredEdges(i) = ExpectedEdges(bonds)
                /\ \A r \in 1..Len(ds.edge_indices[i]) :
                       /\ ds.edge_indices[i][r][1] \in 0..(natoms - 1)
                       /\ ds.edge_indices[i][r][2] \in 0..(natoms - 1)

\* The bond 2-3 of order 3 is stored as (1, 2) and (2, 1), the bond 1-2 as one
\* with the index 0.
C14_Witness ==
    /\ last.op = "read_in_memory" /\ last.built
    /\ \E i \in 1..Len(sdf.blocks) :
        /\ <<<<1, 2>>, <<3>>>> \in StoredEdges(i)
        /\ <<<<2, 1>>, <<3>>>> \in StoredEdges(i)
        /\ <<<<0, 1>>, <<1>>>> \in StoredEdges(i)

AtomSymbol(m, j) == Atoms(m)[j][1]
FileSymbolsInTable(file) ==
    \A i \in 1..Len(file) : \A j \in 1..Len(Atoms(file[i])) :
        AtomSymbol(file[i], j) \in DOMAIN global_proton_dict

\* C11: read_in_memory gives node_number[i][j] the table's number of the symbol
\* of atom j of molecule i; when a symbol of the xyz file is not in the table it
\* fails with KeyError and produces no node_number.
C11_NodeNumberFromTable ==
    last.op = "read_in_memory" =>
        IF FileSymbolsInTable(xyz)
        THEN /\ last.result # "KeyError"
             /\ "node_number" \in ds.set
             /\ Len(ds.node_number) = Len(xyz)
             /\ \A i \in 1..Len(xyz) :
                    /\ Len(ds.node_number[i]) = Len(Atoms(xyz[i]))
                    /\ \A j \in 1..Len(Atoms(xyz[i])) :
                           ds.node_number[i][j] = global_proton_dict[AtomSymbol(xyz[i], j)]
        ELSE /\ last.result = "KeyError"
             /\ ds.node_number = last.ds.node_number
             /\ ("node_number" \in ds.set) = ("node_number" \in last.ds.set)

\* read_in_memory of a file with the symbol D failed with KeyError on a dataset
\* that has no node_number.
C11_Witness ==
    /\ last.op = "read_in_memory" /\ last.result = "KeyError"
    /\ "node_number" \notin ds.set
    /\ \E i \in 1..Len(xyz) : AtomSymbol(xyz[i], 1) = "D"

\* C15: a read_in_memory that fails with KeyError leaves every attribute of the
\* dataset as it was before the call.
C15_KeyErrorLeavesDataset ==
    (last.op = "read_in_memory" /\ last.result = "KeyError") =>
        /\ ds.set = last.ds.set
        /\ ds.length = last.ds.length
        /\ ds.node_coordinates = last.ds.node_coordinates
        /\ ds.node_symbol = last.ds.node_symbol
        /\ ds.node_number = last.ds.node_number
        /\ ds.edge_indices = last.ds.edge_indices
        /\ ds.edge_attributes = last.ds.edge_attributes

\* The failing call found a dataset loaded from another xyz file, with edges, and
\* the dataset still is that one.
C15_Witness ==
    /\ last.op = "read_in_memory" /\ last.result = "KeyError"
    /\ "edge_indices" \in ds.set
    /\ ds.length > 0
    /\ ds.node_src # xyz

(***************************************************************************)
(* Claims about the input embedding, checked under SpecEmbed.              *)
(***************************************************************************)

Embedded(out, tensor, args) ==
    out = [layer |-> "Embedding", args |-> args, input |-> tensor]
NodeDone == epc \in {"node", "edge", "state"}
EdgeDone == epc \in {"edge", "state"}
StateDone == epc = "state"

NodeByRankOne ==
    NodeDone => IF Len(input_node_shape) = 1
                THEN Embedded(n, node_input, input_embedding.nodes)
                ELSE n = node_input
EdgeByRankOne ==
    EdgeDone => IF Len(input_edge_shape) = 1
                THEN Embedded(ed, edge_input, input_embedding.edges)
                ELSE ed = edge_input

\* C13 as stated: each of the node, edge and state inputs gets an embedding
\* layer exactly when its shape has rank 1 and is passed through unchanged
\* otherwise.
C13_EmbeddingIffRankOne ==
    /\ NodeByRankOne
    /\ EdgeByRankOne
    /\ StateDone => IF Len(input_state_shape) = 1
                    THEN Embedded(uenv, env_input, input_embedding.state)
                    ELSE uenv = env_input

\* C13 amended: the node and the edge input get an embedding layer exactly when
\* their shape has rank 1, the state input exactly when its shape has rank 0
\* (the empty shape); otherwise the input tensor is passed through unchanged.
C13_EmbeddingByInputKind ==
    /\ NodeByRankOne
    /\ EdgeByRankOne
    /\ StateDone => IF Len(input_state_shape) = 0
                    THEN Embedded(uenv, env_input, input_embedding.state)
                    ELSE uenv = env_input

\* Node shape (None,) embedded, edge shape (None, F) passed through, state shape
\* () embedded.
C13_Witness ==
    /\ StateDone
    /\ input_node_shape = <<"None">> /\ n.layer = "Embedding"
    /\ input_edge_shape = <<"None", "F">> /\ ed = edge_input /\ ed.layer = "Input"
    /\ input_state_shape = <<>> /\ uenv.layer = "Embedding"

(***************************************************************************)
(* Claims about update_model_args, checked under SpecMerge.                *)
(***************************************************************************)

CallDefault == ArgOrEmpty(call.pre, call.d)
CallUser == ArgOrEmpty(call.pre, call.u)

\* C1: update_model_args(default, None) equals default, update_model_args(None,
\* override) equals override, every key of override has the override's value in
\* the result, every key of default that override lacks keeps its default value,
\* and the result's keys are the union of both key sets.
C1_MergeContract ==
    call.made =>
        /\ (call.u = None => call.ret = CallDefault)
        /\ (call.d = None => call.ret = CallUser)
        /\ \A k \in DOMAIN CallUser : call.ret[k] = CallUser[k]
        /\ \A k \in (DOMAIN CallDefault) \ (DOMAIN CallUser) : call.ret[k] = CallDefault[k]
        /\ DOMAIN call.ret = (DOMAIN CallDefault) \cup (DOMAIN CallUser)

\* A call with both arguments given, a key on which they differ and a key only
\* the default has.
C1_Witness ==
    /\ call.made /\ call.d # None /\ call.u # None
    /\ \E k \in (DOMAIN CallDefault) \cap (DOMAIN CallUser) : CallDefault[k] # CallUser[k]
    /\ (DOMAIN CallDefault) \ (DOMAIN CallUser) # {}

\* C9: the merge is shallow: for a key both arguments map to nested dictionaries
\* the result holds the override's nested dictionary itself, with the override's
\* keys only; nested keys only the default's nested dictionary has are absent.
C9_ShallowMerge ==
    call.made =>
        \A k \in (DOMAIN CallDefault) \cap (DOMAIN CallUser) :
            (IsRef(CallDefault[k]) /\ IsRef(CallUser[k])) =>
                /\ call.ret[k] = CallUser[k]
                /\ call.post[call.ret[k].ref] = call.pre[CallUser[k].ref]
                /\ \A nk \in (DOMAIN call.pre[CallDefault[k].ref])
                                \ (DOMAIN call.pre[CallUser[k].ref]) :
                       nk \notin DOMAIN heap[call.ret[k].ref]

\* make_megnet was given input_embedding = {"nodes": {...}} without output_dim:
\* the merged input_embedding["nodes"] has no output_dim although the default has.
C9_Witness ==
    /\ margs["input_embedding"] # None
    /\ user["input_embedding"] # None
    /\ "nodes" \in DOMAIN heap[user["input_embedding"]]
    /\ "output_dim" \in DOMAIN heap[ObjNodes]
    /\ "output_dim" \notin DOMAIN heap[heap[margs["input_embedding"]]["nodes"].ref]

\* C10: update_model_args changes no object that existed before the call, the
\* mapping it returns is a new object (neither argument), and the dictionaries the
\* program started with (the defaults and the caller's) never change, also not
\* through later updates of a returned mapping.
C10_NoMutation ==
    /\ call.made =>
        /\ \A x \in 1..call.n : call.post[x] = call.pre[x]
        /\ call.out \notin 1..call.n
        /\ call.out \notin {call.d, call.u}
    /\ \A x \in 1..NInit : heap[x] = heap0[x]

\* make_megnet has run line 102 on the merged state_ff_args, the caller's
\* state_ff_args says "ragged" and still does.
C10_Witness ==
    /\ mpc = Len(Sections) + 2
    /\ user["state_ff_args"] # None
    /\ "input_tensor_type" \in DOMAIN heap[user["state_ff_args"]]
    /\ heap[user["state_ff_args"]]["input_tensor_type"] = Scalar("ragged")
    /\ heap[margs["state_ff_args"]]["input_tensor_type"] = Scalar("tensor")

====
